---- MODULE Spec2Model ----
(***************************************************************************)
(* The bisection session engine of the rocket launch bot:                  *)
(* UserSession and SessionManager of bot/session_manager.py, driven the    *)
(* way handlers/command_handlers.py drives them (update_bounds followed by *)
(* next_step for every yes/no answer), the handlers that restart and      *)
(* finish sessions, and the stand-alone BisectionAlgorithm of              *)
(* bot/frames.py.                                                          *)
(***************************************************************************)
EXTENDS Integers, Sequences, FiniteSets, TLC

\* ------------------------------------------------------------------ bounds
\* Largest frame count a video reports (video_info.frames).
MaxFrames == 16
\* How many answers are fed to a session that is already finished.
MaxLate == 2
\* Largest frame count when both users hold sessions in the registry.
MaxRegistryFrames == 3
\* Largest frame count given to the stand-alone find_launch_frame.
MaxBisectionFrames == 8

\* Telegram user ids (update.effective_user.id).
Users == {101, 202}
\* The user whose session the engine specification exercises.
EngineUsers == {101}
\* Frame counts the metadata source may report; 0 is an empty video.
FrameCounts == 0..MaxFrames
\* The same, for the registry specification.
RegistryFrameCounts == 0..MaxRegistryFrames
\* total_frames arguments of find_launch_frame; -1 and 0 are not frame counts.
BisectionFrameCounts == (-1)..MaxBisectionFrames

\* ------------------------------------------------------------------ state
VARIABLES
    sessions,   \* SessionManager.sessions: dict user_id -> UserSession
    ret,        \* outcome of the last operation: what it returned or raised
    asked,      \* history: per user, the <<probe, answer>> pairs its current
                \* session object received while it was not finished
    late        \* history: per user, how many answers its current session
                \* object was given after it was finished

vars == <<sessions, ret, asked, late>>

\* Optional[int]: None, or an int
None == << >>
Some(x) == <<x>>

\* ------------------------------------------------------------ UserSession

\* _calculate_next_frame taking half the range without adding left_bound
calculate_next_frame_no_offset(self) ==
    IF self.left_bound <= self.right_bound
    THEN [self   |-> [self EXCEPT
                        !.current_frame = (self.right_bound - self.left_bound) \div 2,
                        !.steps_taken = @ + 1],
          result |-> TRUE]
    ELSE [self |-> self, result |-> FALSE]

\* _calculate_next_frame rounding the midpoint up
calculate_next_frame_round_up(self) ==
    IF self.left_bound <= self.right_bound
    THEN [self   |-> [self EXCEPT
                        !.current_frame = (self.left_bound + self.right_bound + 1) \div 2,
                        !.steps_taken = @ + 1],
          result |-> TRUE]
    ELSE [self |-> self, result |-> FALSE]


\* _calculate_next_frame choosing the probe without counting it
calculate_next_frame_no_count(self) ==
    IF self.left_bound <= self.right_bound
    THEN [self   |-> [self EXCEPT
                        !.current_frame = (self.left_bound + self.right_bound) \div 2],
          result |-> TRUE]
    ELSE [self |-> self, result |-> FALSE]

\* UserSession._calculate_next_frame: the mutated object and the value returned
calculate_next_frame(self) ==
    IF self.left_bound <= self.right_bound
    THEN [self   |-> [self EXCEPT
                        !.current_frame = (self.left_bound + self.right_bound) \div 2,
                        !.steps_taken = @ + 1],
          result |-> TRUE]
    ELSE [self |-> self, result |-> FALSE]

\* __init__ with the right bound one past the last frame
UserSession_right_past_end(user_id, total_frames) ==
    calculate_next_frame(
        [user_id       |-> user_id,
         total_frames  |-> total_frames,
         left_bound    |-> 0,
         right_bound   |-> total_frames,
         steps_taken   |-> 0,
         found_frame   |-> None,
         is_finished   |-> FALSE,
         current_frame |-> 0]).self

\* UserSession.__init__
UserSession(user_id, total_frames) ==
    calculate_next_frame(
        [user_id       |-> user_id,
         total_frames  |-> total_frames,
         left_bound    |-> 0,
         right_bound   |-> total_frames - 1,
         steps_taken   |-> 0,
         found_frame   |-> None,
         is_finished   |-> FALSE,
         current_frame |-> 0]).self

\* update_bounds keeping the probed frame in range after a "yes"
update_bounds_keeps_probe(self, has_launched) ==
    IF has_launched
    THEN [self EXCEPT !.right_bound = self.current_frame]
    ELSE [self EXCEPT !.left_bound = self.current_frame + 1]

\* update_bounds with the two answers swapped
update_bounds_inverted(self, has_launched) ==
    IF has_launched
    THEN [self EXCEPT !.left_bound = self.current_frame + 1]
    ELSE [self EXCEPT !.right_bound = self.current_frame - 1]

\* UserSession.update_bounds
update_bounds(self, has_launched) ==
    IF has_launched
    THEN [self EXCEPT !.right_bound = self.current_frame - 1]
    ELSE [self EXCEPT !.left_bound = self.current_frame + 1]

\* next_step resolving to the right bound when the bounds cross
next_step_found_right(self) ==
    IF self.left_bound > self.right_bound
    THEN [self   |-> [self EXCEPT
                        !.is_finished = TRUE,
                        !.found_frame =
                            IF self.right_bound < self.total_frames
                            THEN Some(self.right_bound)
                            ELSE Some(self.total_frames - 1)],
          result |-> TRUE]
    ELSE LET nxt == calculate_next_frame(self)
         IN  IF ~nxt.result
             THEN [self   |-> [nxt.self EXCEPT
                                 !.is_finished = TRUE,
                                 !.found_frame = Some(nxt.self.current_frame)],
                   result |-> TRUE]
             ELSE [self |-> nxt.self, result |-> FALSE]

\* next_step without the fallback to the last frame
next_step_no_clamp(self) ==
    IF self.left_bound > self.right_bound
    THEN [self   |-> [self EXCEPT
                        !.is_finished = TRUE,
                        !.found_frame = Some(self.left_bound)],
          result |-> TRUE]
    ELSE LET nxt == calculate_next_frame(self)
         IN  IF ~nxt.result
             THEN [self   |-> [nxt.self EXCEPT
                                 !.is_finished = TRUE,
                                 !.found_frame = Some(nxt.self.current_frame)],
                   result |-> TRUE]
             ELSE [self |-> nxt.self, result |-> FALSE]


\* next_step returning True without setting is_finished when the bounds cross
next_step_no_flag(self) ==
    IF self.left_bound > self.right_bound
    THEN [self   |-> [self EXCEPT
                        !.found_frame =
                            IF self.left_bound < self.total_frames
                            THEN Some(self.left_bound)
                            ELSE Some(self.total_frames - 1)],
          result |-> TRUE]
    ELSE LET nxt == calculate_next_frame(self)
         IN  IF ~nxt.result
             THEN [self   |-> [nxt.self EXCEPT
                                 !.is_finished = TRUE,
                                 !.found_frame = Some(nxt.self.current_frame)],
                   result |-> TRUE]
             ELSE [self |-> nxt.self, result |-> FALSE]

\* next_step setting found_frame only when left_bound is a frame index
next_step_no_fallback(self) ==
    IF self.left_bound > self.right_bound
    THEN [self   |-> [self EXCEPT
                        !.is_finished = TRUE,
                        !.found_frame =
                            IF self.left_bound < self.total_frames
                            THEN Some(self.left_bound)
                            ELSE self.found_frame],
          result |-> TRUE]
    ELSE LET nxt == calculate_next_frame(self)
         IN  IF ~nxt.result
             THEN [self   |-> [nxt.self EXCEPT
                                 !.is_finished = TRUE,
                                 !.found_frame = Some(nxt.self.current_frame)],
                   result |-> TRUE]
             ELSE [self |-> nxt.self, result |-> FALSE]

\* UserSession.next_step: the mutated object and the value returned
next_step(self) ==
    IF self.left_bound > self.right_bound
    THEN [self   |-> [self EXCEPT
                        !.is_finished = TRUE,
                        !.found_frame =
                            IF self.left_bound < self.total_frames
                            THEN Some(self.left_bound)
                            ELSE Some(self.total_frames - 1)],
          result |-> TRUE]
    ELSE LET nxt == calculate_next_frame(self)
         IN  IF ~nxt.result
             THEN [self   |-> [nxt.self EXCEPT
                                 !.is_finished = TRUE,
                                 !.found_frame = Some(nxt.self.current_frame)],
                   result |-> TRUE]
             ELSE [self |-> nxt.self, result |-> FALSE]

\* UserSession.is_complete
is_complete(self) == self.is_finished

\* int(math.log2(m)) for an int m >= 1
ILog2(m) == CHOOSE e \in 0..m : 2^e <= m /\ m < 2^(e + 1)

\* calculate_remaining_steps taking log2 of the range without the + 1
calculate_remaining_steps_no_plus_one(self) ==
    LET remaining_range == self.right_bound - self.left_bound
    IN  IF remaining_range <= 0
        THEN 0
        ELSE IF ILog2(remaining_range) > 0 THEN ILog2(remaining_range) ELSE 0

\* UserSession.calculate_remaining_steps
calculate_remaining_steps(self) ==
    LET remaining_range == self.right_bound - self.left_bound
    IN  IF remaining_range <= 0
        THEN 0
        ELSE IF ILog2(remaining_range + 1) > 0 THEN ILog2(remaining_range + 1) ELSE 0

\* get_progress_info reporting the share of steps still to go
get_progress_info_remaining_share(self) ==
    LET remaining_steps == calculate_remaining_steps(self)
        total_estimated_steps == self.steps_taken + remaining_steps
        percentage ==
            IF total_estimated_steps > 0
            THEN IF (remaining_steps * 100) \div total_estimated_steps < 100
                 THEN (remaining_steps * 100) \div total_estimated_steps
                 ELSE 100
            ELSE 100
    IN  [current_frame       |-> self.current_frame,
         total_frames        |-> self.total_frames,
         steps_taken         |-> self.steps_taken,
         remaining_steps     |-> remaining_steps,
         progress_percentage |-> percentage]

\* UserSession.get_progress_info. int((a / b) * 100) on floats is
\* (100 * a) \div b for every 0 <= a <= b with a < 29, and steps_taken
\* stays far below 29 here.
get_progress_info(self) ==
    LET remaining_steps == calculate_remaining_steps(self)
        total_estimated_steps == self.steps_taken + remaining_steps
        percentage ==
            IF total_estimated_steps > 0
            THEN IF (self.steps_taken * 100) \div total_estimated_steps < 100
                 THEN (self.steps_taken * 100) \div total_estimated_steps
                 ELSE 100
            ELSE 100
    IN  [current_frame       |-> self.current_frame,
         total_frames        |-> self.total_frames,
         steps_taken         |-> self.steps_taken,
         remaining_steps     |-> remaining_steps,
         progress_percentage |-> percentage]

\* One answer as the handler feeds it: session.update_bounds(has_launched)
\* followed by session.next_step()
submit_answer(self, has_launched) == next_step(update_bounds(self, has_launched))

\* --------------------------------------------------------- SessionManager
\* SessionManager.__init__, and the histories of no session
Init ==
    /\ sessions = [u \in {} |-> 0]
    /\ ret = [op |-> "init", user |-> 0, val |-> "none", err |-> "none"]
    /\ asked = [u \in Users |-> << >>]
    /\ late = [u \in Users |-> 0]


\* create_session keeping the session a user already has
CreateSession_keeps_existing(user_id, total_frames) ==
    /\ sessions' = IF user_id \in DOMAIN sessions
                   THEN sessions
                   ELSE [v \in DOMAIN sessions \cup {user_id} |->
                            IF v = user_id
                            THEN UserSession(user_id, total_frames)
                            ELSE sessions[v]]
    /\ ret' = [op |-> "create_session", user |-> user_id,
               total_frames |-> total_frames,
               val |-> "session", err |-> "none"]
    /\ asked' = [asked EXCEPT ![user_id] = << >>]
    /\ late' = [late EXCEPT ![user_id] = 0]


\* create_session starting a new dict that holds the new session only
CreateSession_resets_registry(user_id, total_frames) ==
    /\ sessions' = [v \in {user_id} |-> UserSession(user_id, total_frames)]
    /\ ret' = [op |-> "create_session", user |-> user_id,
               total_frames |-> total_frames,
               val |-> "session", err |-> "none"]
    /\ asked' = [asked EXCEPT ![user_id] = << >>]
    /\ late' = [late EXCEPT ![user_id] = 0]

\* SessionManager.create_session
CreateSession(user_id, total_frames) ==
    /\ sessions' = [v \in DOMAIN sessions \cup {user_id} |->
                        IF v = user_id
                        THEN UserSession(user_id, total_frames)
                        ELSE sessions[v]]
    /\ ret' = [op |-> "create_session", user |-> user_id,
               total_frames |-> total_frames,
               val |-> "session", err |-> "none"]
    /\ asked' = [asked EXCEPT ![user_id] = << >>]
    /\ late' = [late EXCEPT ![user_id] = 0]

\* SessionManager.get_session, the value it returns
get_session(user_id) ==
    IF user_id \in DOMAIN sessions THEN sessions[user_id] ELSE None

\* SessionManager.get_session
GetSession(user_id) ==
    /\ ret' = [op |-> "get_session", user |-> user_id,
               val |-> IF user_id \in DOMAIN sessions THEN "session" ELSE "None",
               err |-> "none"]
    /\ UNCHANGED <<sessions, asked, late>>


\* end_session deleting without looking whether the user has a session
EndSession_unguarded(user_id) ==
    /\ sessions' = IF user_id \in DOMAIN sessions
                   THEN [v \in DOMAIN sessions \ {user_id} |-> sessions[v]]
                   ELSE sessions
    /\ ret' = [op |-> "end_session", user |-> user_id,
               val |-> "none",
               err |-> IF user_id \in DOMAIN sessions THEN "none" ELSE "KeyError"]
    /\ asked' = [asked EXCEPT ![user_id] = << >>]
    /\ late' = [late EXCEPT ![user_id] = 0]

\* SessionManager.end_session
EndSession(user_id) ==
    /\ sessions' = IF user_id \in DOMAIN sessions
                   THEN [v \in DOMAIN sessions \ {user_id} |-> sessions[v]]
                   ELSE sessions
    /\ ret' = [op |-> "end_session", user |-> user_id,
               val |-> "none", err |-> "none"]
    /\ asked' = [asked EXCEPT ![user_id] = << >>]
    /\ late' = [late EXCEPT ![user_id] = 0]

\* An answer to the session a user holds: update_bounds, then next_step.
\* Neither method looks at is_finished before it acts, and neither raises.
SubmitAnswer(user_id, has_launched) ==
    /\ user_id \in DOMAIN sessions
    /\ sessions[user_id].is_finished => late[user_id] < MaxLate
    /\ Len(asked[user_id]) <= MaxFrames
    /\ LET out == submit_answer(sessions[user_id], has_launched)
       IN  /\ sessions' = [sessions EXCEPT ![user_id] = out.self]
           /\ ret' = [op |-> "submit_answer", user |-> user_id,
                      val |-> IF out.result THEN "True" ELSE "False",
                      err |-> "none"]
    /\ IF sessions[user_id].is_finished
       THEN /\ late' = [late EXCEPT ![user_id] = @ + 1]
            /\ asked' = asked
       ELSE /\ asked' = [asked EXCEPT ![user_id] =
                            Append(@, <<sessions[user_id].current_frame, has_launched>>)]
            /\ late' = late

\* The session engine as one user's requests exercise it.
Next ==
    \/ \E u \in EngineUsers, n \in FrameCounts : CreateSession(u, n)
    \/ \E u \in EngineUsers : GetSession(u)
    \/ \E u \in EngineUsers : EndSession(u)
    \/ \E u \in EngineUsers, a \in BOOLEAN : SubmitAnswer(u, a)

Spec == Init /\ [][Next]_vars

\* The registry as the requests of both users exercise it.
RegistryNext ==
    \/ \E u \in Users, n \in RegistryFrameCounts : CreateSession(u, n)
    \/ \E u \in Users : GetSession(u)
    \/ \E u \in Users : EndSession(u)
    \/ \E u \in Users, a \in BOOLEAN : SubmitAnswer(u, a)

SpecRegistry == Init /\ [][RegistryNext]_vars

\* ------------------------------------------------------------- handlers
\* SessionManager.end_session, as a function of the dict
end_session(reg, user_id) ==
    IF user_id \in DOMAIN reg
    THEN [v \in DOMAIN reg \ {user_id} |-> reg[v]]
    ELSE reg

\* SessionManager.create_session, as a function of the dict
create_session(reg, user_id, total_frames) ==
    [v \in DOMAIN reg \cup {user_id} |->
        IF v = user_id THEN UserSession(user_id, total_frames) ELSE reg[v]]

\* handle_frame_response, the guard before show_results: a finished session
\* without found_frame gets the last frame shown
found_frame_or_current(self) ==
    IF self.found_frame = None
    THEN [self EXCEPT !.found_frame = Some(self.current_frame)]
    ELSE self

\* show_results, its first lines: a missing or negative found_frame becomes
\* the last frame
found_frame_or_last(self) ==
    IF self.found_frame = None
    THEN [self EXCEPT !.found_frame = Some(self.total_frames - 1)]
    ELSE IF self.found_frame[1] < 0
         THEN [self EXCEPT !.found_frame = Some(self.total_frames - 1)]
         ELSE self

\* What frame_client.get_video_info does: it returns the video's metadata,
\* of which only frames is used, or it raises
VideoInfoResults ==
    {[raised |-> FALSE, frames |-> n] : n \in RegistryFrameCounts}
        \cup {[raised |-> TRUE]}


\* The try block with end_session moved behind get_video_info, so that a
\* failed fetch leaves the registry as it was
restarted_keeps_on_failure(reg, user_id, video_info) ==
    IF video_info.raised
    THEN reg
    ELSE create_session(end_session(reg, user_id), user_id, video_info.frames)

\* The registry after the try block of start_command and of handle_restart:
\* end_session, get_video_info, create_session
restarted(reg, user_id, video_info) ==
    IF video_info.raised
    THEN end_session(reg, user_id)
    ELSE create_session(end_session(reg, user_id), user_id, video_info.frames)

\* start_command. When get_video_info raises the handler's except only
\* reports the error; what is sent to the user after create_session does not
\* touch the registry.
StartCommand(user_id, video_info) ==
    /\ sessions' = restarted(sessions, user_id, video_info)
    /\ ret' = IF video_info.raised
              THEN [op |-> "start_command", user |-> user_id,
                    val |-> "none", err |-> "video_info"]
              ELSE [op |-> "start_command", user |-> user_id,
                    total_frames |-> video_info.frames,
                    val |-> "session", err |-> "none"]
    /\ asked' = [asked EXCEPT ![user_id] = << >>]
    /\ late' = [late EXCEPT ![user_id] = 0]

\* handle_restart. answered: query.answer() returned (it is awaited outside
\* the try, so its failure ends the handler before anything else happens).
HandleRestart(user_id, answered, video_info) ==
    /\ sessions' = IF answered
                   THEN restarted(sessions, user_id, video_info)
                   ELSE sessions
    /\ ret' = IF ~answered
              THEN [op |-> "handle_restart", user |-> user_id,
                    val |-> "none", err |-> "answer"]
              ELSE IF video_info.raised
              THEN [op |-> "handle_restart", user |-> user_id,
                    val |-> "none", err |-> "video_info"]
              ELSE [op |-> "handle_restart", user |-> user_id,
                    total_frames |-> video_info.frames,
                    val |-> "session", err |-> "none"]
    /\ asked' = IF answered THEN [asked EXCEPT ![user_id] = << >>] ELSE asked
    /\ late' = IF answered THEN [late EXCEPT ![user_id] = 0] ELSE late

\* handle_frame_response for a "yes" or "no" button. answered: query.answer()
\* returned. displayed: show_results returned; it raises when the frame edit
\* and every fallback message fail (the send_message of its except handler is
\* not itself guarded), and then the except of handle_frame_response runs
\* instead of end_session.
HandleFrameResponse(user_id, has_launched, answered, displayed) ==
    /\ (user_id \in DOMAIN sessions /\ answered) =>
            /\ sessions[user_id].is_finished => late[user_id] < MaxLate
            /\ Len(asked[user_id]) <= MaxFrames
    /\ IF ~answered
       THEN /\ ret' = [op |-> "handle_frame_response", user |-> user_id,
                       val |-> "none", err |-> "answer"]
            /\ UNCHANGED <<sessions, asked, late>>
       ELSE IF user_id \notin DOMAIN sessions
       THEN /\ ret' = [op |-> "handle_frame_response", user |-> user_id,
                       val |-> "expired", err |-> "none"]
            /\ UNCHANGED <<sessions, asked, late>>
       ELSE LET out == submit_answer(sessions[user_id], has_launched)
                shown == found_frame_or_last(found_frame_or_current(out.self))
            IN  /\ sessions' =
                    IF ~out.result
                    THEN [sessions EXCEPT ![user_id] = out.self]
                    ELSE IF displayed
                         THEN end_session([sessions EXCEPT ![user_id] = shown],
                                          user_id)
                         ELSE [sessions EXCEPT ![user_id] = shown]
                /\ ret' = [op |-> "handle_frame_response", user |-> user_id,
                           val |-> IF out.result THEN "complete" ELSE "continue",
                           err |-> IF out.result /\ ~displayed
                                   THEN "show_results" ELSE "none"]
                /\ IF out.result /\ displayed
                   THEN /\ asked' = [asked EXCEPT ![user_id] = << >>]
                        /\ late' = [late EXCEPT ![user_id] = 0]
                   ELSE IF sessions[user_id].is_finished
                   THEN /\ late' = [late EXCEPT ![user_id] = @ + 1]
                        /\ asked' = asked
                   ELSE /\ asked' = [asked EXCEPT ![user_id] =
                                Append(@, <<sessions[user_id].current_frame,
                                            has_launched>>)]
                        /\ late' = late

\* The bot: the three handlers main() registers, for the updates of both users.
\* The application handles one update at a time.
BotNext ==
    \/ \E u \in Users, v \in VideoInfoResults : StartCommand(u, v)
    \/ \E u \in Users, q \in BOOLEAN, v \in VideoInfoResults :
            HandleRestart(u, q, v)
    \/ \E u \in Users, a \in BOOLEAN, q \in BOOLEAN, d \in BOOLEAN :
            HandleFrameResponse(u, a, q, d)

SpecBot == Init /\ [][BotNext]_vars


\* --------------------------------------------------- BisectionAlgorithm
\* frame_tester(frame_getter(mid), mid) of a video whose launch is first seen
\* at frame k: False below k, True from k on; k = total_frames never answers
\* True
MonotonicTester(total_frames, k) == [mid \in 0..(total_frames - 1) |-> mid >= k]

\* The testers find_launch_frame is called with
FrameTesters(total_frames) ==
    {MonotonicTester(total_frames, k) : k \in 0..(IF total_frames > 0 THEN total_frames ELSE 0)}

\* find_launch_frame, its while loop from the given bounds on: the bounds it
\* ends with and the frames it has fetched and tested
RECURSIVE bisection_loop(_, _, _, _)
bisection_loop(left, right, frame_tester, probes) ==
    IF left + 1 < right
    THEN LET mid == (left + right) \div 2
             has_launched == frame_tester[mid]
         IN  IF has_launched
             THEN bisection_loop(left, mid, frame_tester, Append(probes, mid))
             ELSE bisection_loop(mid, right, frame_tester, Append(probes, mid))
    ELSE [left |-> left, right |-> right, probes |-> probes]

\* find_launch_frame returning the left bound
find_launch_frame_returns_left(total_frames, frame_tester) ==
    IF total_frames < 1
    THEN [raised |-> TRUE, probes |-> << >>]
    ELSE LET out == bisection_loop(0, total_frames - 1, frame_tester, << >>)
         IN  [raised |-> FALSE, result |-> out.left, probes |-> out.probes]

\* BisectionAlgorithm.find_launch_frame: ValueError, or the frame returned;
\* and the frames it probed on the way
find_launch_frame(total_frames, frame_tester) ==
    IF total_frames < 1
    THEN [raised |-> TRUE, probes |-> << >>]
    ELSE LET out == bisection_loop(0, total_frames - 1, frame_tester, << >>)
         IN  [raised |-> FALSE, result |-> out.right, probes |-> out.probes]

\* A call of find_launch_frame; it touches no session
FindLaunchFrame(total_frames, frame_tester) ==
    /\ LET out == find_launch_frame(total_frames, frame_tester)
       IN  ret' = IF out.raised
                  THEN [op |-> "find_launch_frame", user |-> 0,
                        total_frames |-> total_frames,
                        frame_tester |-> frame_tester,
                        probes |-> out.probes,
                        val |-> "none", err |-> "ValueError"]
                  ELSE [op |-> "find_launch_frame", user |-> 0,
                        total_frames |-> total_frames,
                        frame_tester |-> frame_tester,
                        probes |-> out.probes,
                        frame |-> out.result,
                        val |-> "frame", err |-> "none"]
    /\ UNCHANGED <<sessions, asked, late>>

\* The two bisections side by side: one user's session, and calls of
\* find_launch_frame
BisectionNext ==
    \/ \E u \in EngineUsers, n \in 0..MaxBisectionFrames : CreateSession(u, n)
    \/ \E u \in EngineUsers, a \in BOOLEAN : SubmitAnswer(u, a)
    \/ \E n \in BisectionFrameCounts :
            \E t \in FrameTesters(n) : FindLaunchFrame(n, t)

SpecBisection == Init /\ [][BisectionNext]_vars

\* ------------------------------------------------------- claim vocabulary
\* ceil(log2(n)) for n >= 1
CeilLog2(n) == CHOOSE e \in 0..n : 2^e >= n /\ (e = 0 \/ 2^(e - 1) < n)

\* The answers h are those of the monotonic oracle with threshold k:
\* "no" for every probe below k, "yes" for every probe at or above k
Consistent(h, k) == \A i \in 1..Len(h) : h[i][2] <=> (h[i][1] >= k)

\* Every answer of h is the answer a
AllAnswers(h, a) == \A i \in 1..Len(h) : h[i][2] = a

\* get_progress_info()['progress_percentage'] of a session
Percent(self) == get_progress_info(self).progress_percentage

\* floor(log2(n)) for n >= 1
FloorLog2(n) == CHOOSE e \in 0..n : 2^e <= n /\ n < 2^(e + 1)

\* A step that gave one more answer to the session object user u holds
Answered(u) ==
    /\ u \in DOMAIN sessions
    /\ u \in DOMAIN sessions'
    /\ \/ Len(asked'[u]) = Len(asked[u]) + 1
       \/ late'[u] = late[u] + 1

\* ------------------------------------------------------------------ C1
\* C1: with answers from a monotonic oracle of threshold k in
\* 0..total_frames-1, a fresh session (total_frames >= 1) that is given answers
\* until next_step returns True ends with found_frame = k, and it has taken at
\* most ceil(log2(total_frames)) + 1 answers to get there.
C1_MonotonicOracleFindsThreshold ==
    \A u \in DOMAIN sessions :
        LET s == sessions[u]
        IN  (s.total_frames >= 1 /\ late[u] = 0) =>
                \A k \in 0..(s.total_frames - 1) :
                    Consistent(asked[u], k) =>
                        IF s.is_finished
                        THEN /\ s.found_frame = Some(k)
                             /\ Len(asked[u]) <= CeilLog2(s.total_frames) + 1
                        ELSE Len(asked[u]) < CeilLog2(s.total_frames) + 1

\* The scenario of 8 frames with the event at frame 5: probes 3, 5, 4
C1_Witness ==
    \E u \in DOMAIN sessions :
        /\ sessions[u].total_frames = 8
        /\ sessions[u].is_finished
        /\ late[u] = 0
        /\ asked[u] = << <<3, FALSE>>, <<5, TRUE>>, <<4, FALSE>> >>
        /\ sessions[u].found_frame = Some(5)

\* ------------------------------------------------------------------ C2
\* C2 as stated: under any monotonic oracle (the all-"no" one is threshold
\* total_frames) a session that is not yet finished has received fewer than
\* ceil(log2(total_frames)) answers, so that many answers always finish it.
C2_FinishedWithinCeilLog2 ==
    \A u \in DOMAIN sessions :
        LET s == sessions[u]
        IN  (/\ s.total_frames >= 1
             /\ \E k \in 0..s.total_frames : Consistent(asked[u], k)
             /\ ~s.is_finished)
                => Len(asked[u]) < CeilLog2(s.total_frames)

\* C2 amended: under any monotonic oracle, the all-"no" one included, the
\* session is finished within ceil(log2(total_frames)) + 1 answers: while it
\* is not finished it has received at most ceil(log2(total_frames)) of them,
\* and the answer that finishes it is at most number ceil(log2(total_frames)) + 1.
C2_FinishedWithinCeilLog2PlusOne ==
    \A u \in DOMAIN sessions :
        LET s == sessions[u]
        IN  (/\ s.total_frames >= 1
             /\ \E k \in 0..s.total_frames : Consistent(asked[u], k))
                => /\ ~s.is_finished => Len(asked[u]) < CeilLog2(s.total_frames) + 1
                   /\ s.is_finished => Len(asked[u]) <= CeilLog2(s.total_frames) + 1

\* A session of 8 frames that the all-"no" oracle finished with its 4th answer
C2_Witness ==
    \E u \in DOMAIN sessions :
        /\ sessions[u].total_frames = 8
        /\ sessions[u].is_finished
        /\ late[u] = 0
        /\ AllAnswers(asked[u], FALSE)
        /\ Len(asked[u]) = CeilLog2(8) + 1

\* ------------------------------------------------------------------ C3
\* C3: an answer given to a finished session is rejected with InvalidState.
C3_FinishedSessionRejectsAnswer ==
    (ret.op = "submit_answer" /\ late[ret.user] > 0) => ret.err = "InvalidState"

\* ------------------------------------------------------------------ C4
\* C4: an answer given to a finished session leaves left_bound, right_bound
\* and found_frame as they were.
C4_FinishedSessionIsFrozen ==
    [][\A u \in Users :
        (Answered(u) /\ sessions[u].is_finished) =>
            /\ sessions'[u].left_bound = sessions[u].left_bound
            /\ sessions'[u].right_bound = sessions[u].right_bound
            /\ sessions'[u].found_frame = sessions[u].found_frame]_vars

\* ------------------------------------------------------------------ C5
\* C5: a frame count below 1 is refused: no session with total_frames < 1
\* is ever constructed or stored in the registry.
C5_InvalidFrameCountRefused ==
    \A u \in DOMAIN sessions : sessions[u].total_frames >= 1

\* ------------------------------------------------------------------ C6
\* C6: a session (total_frames >= 1) finished by "no" answers only has
\* found_frame = total_frames - 1.
C6_AllNoClampsToLastFrame ==
    \A u \in DOMAIN sessions :
        LET s == sessions[u]
        IN  (/\ s.total_frames >= 1
             /\ s.is_finished
             /\ late[u] = 0
             /\ AllAnswers(asked[u], FALSE))
                => s.found_frame = Some(s.total_frames - 1)

\* The largest video, finished by "no" answers only
C6_Witness ==
    \E u \in DOMAIN sessions :
        /\ sessions[u].total_frames = MaxFrames
        /\ sessions[u].is_finished
        /\ late[u] = 0
        /\ Len(asked[u]) >= 2
        /\ AllAnswers(asked[u], FALSE)
        /\ sessions[u].left_bound = MaxFrames

\* ------------------------------------------------------------------ C7
\* C7: a session (total_frames >= 1) finished by "yes" answers only has
\* found_frame = 0.
C7_AllYesFindsFrameZero ==
    \A u \in DOMAIN sessions :
        LET s == sessions[u]
        IN  (/\ s.total_frames >= 1
             /\ s.is_finished
             /\ late[u] = 0
             /\ AllAnswers(asked[u], TRUE))
                => s.found_frame = Some(0)

\* The largest video, finished by "yes" answers only
C7_Witness ==
    \E u \in DOMAIN sessions :
        /\ sessions[u].total_frames = MaxFrames
        /\ sessions[u].is_finished
        /\ late[u] = 0
        /\ Len(asked[u]) >= 2
        /\ AllAnswers(asked[u], TRUE)
        /\ sessions[u].right_bound = -1

\* ------------------------------------------------------------------ C8
\* C8: with total_frames = 1 the first probe is frame 0 and the session is
\* finished once it has been given one answer, "yes" or "no".
C8_SingleFrameSession ==
    \A u \in DOMAIN sessions :
        LET s == sessions[u]
        IN  s.total_frames = 1 =>
                /\ asked[u] = << >> => (s.current_frame = 0 /\ ~s.is_finished)
                /\ Len(asked[u]) >= 1 => (s.is_finished /\ Len(asked[u]) = 1)

\* A one-frame session finished by its first answer, a "no"
C8_Witness ==
    \E u \in DOMAIN sessions :
        /\ sessions[u].total_frames = 1
        /\ asked[u] = << <<0, FALSE>> >>
        /\ sessions[u].is_finished

\* ------------------------------------------------------------------ C9
\* C9 as stated: for total_frames >= 1, progress_percentage is 100 exactly
\* when is_finished is true.
C9_HundredIffFinished ==
    \A u \in DOMAIN sessions :
        sessions[u].total_frames >= 1 =>
            (Percent(sessions[u]) = 100 <=> sessions[u].is_finished)

\* C9 amended: for total_frames >= 1, progress_percentage is 100 exactly when
\* the session is finished or is down to one candidate frame
\* (left_bound = right_bound); in particular it is 100 whenever is_finished.
C9_HundredIffFinishedOrOneCandidate ==
    \A u \in DOMAIN sessions :
        LET s == sessions[u]
        IN  s.total_frames >= 1 =>
                (Percent(s) = 100 <=> (s.is_finished \/ s.left_bound = s.right_bound))

\* An unfinished session showing 100 percent after two answers
C9_Witness ==
    \E u \in DOMAIN sessions :
        /\ sessions[u].total_frames >= 2
        /\ Len(asked[u]) = 2
        /\ ~sessions[u].is_finished
        /\ sessions[u].left_bound = sessions[u].right_bound
        /\ Percent(sessions[u]) = 100

\* ------------------------------------------------------------------ C10
\* C10: for total_frames >= 1, every answer given to an unfinished session,
\* the finishing one included, leaves progress_percentage at least as large
\* as it was before the answer.
C10_ProgressNeverDecreases ==
    [][\A u \in Users :
        (/\ Answered(u)
         /\ sessions[u].total_frames >= 1
         /\ ~sessions[u].is_finished)
            => Percent(sessions'[u]) >= Percent(sessions[u])]_vars

\* A session whose percentage is below 100 after two answers moved it
C10_Witness ==
    \E u \in DOMAIN sessions :
        /\ sessions[u].total_frames = MaxFrames
        /\ Len(asked[u]) = 2
        /\ ~sessions[u].is_finished
        /\ Percent(sessions[u]) > Percent(UserSession(u, MaxFrames))
        /\ Percent(sessions[u]) < 100

\* ------------------------------------------------------------------ C11
\* C11: a session constructed with total_frames >= 1 never has
\* left_bound > right_bound without is_finished, whatever answers it is given.
C11_CrossedBoundsMeanFinished ==
    \A u \in DOMAIN sessions :
        LET s == sessions[u]
        IN  (s.total_frames >= 1 /\ s.left_bound > s.right_bound) => s.is_finished

\* A session of two or more frames whose bounds crossed after a "yes" and a "no"
C11_Witness ==
    \E u \in DOMAIN sessions :
        /\ sessions[u].total_frames >= 2
        /\ sessions[u].left_bound > sessions[u].right_bound
        /\ sessions[u].is_finished
        /\ \E i, j \in 1..Len(asked[u]) : asked[u][i][2] /\ ~asked[u][j][2]

\* ------------------------------------------------------------------ C12
\* C12: in every state of a session, is_finished holds exactly when
\* found_frame is set: a finished session has a found_frame, an active one
\* has found_frame None.
C12_FinishedIffFoundFrameSet ==
    \A u \in DOMAIN sessions :
        sessions[u].is_finished <=> sessions[u].found_frame # None

\* A session finished by "no" answers only, where found_frame is the fallback
C12_Witness ==
    \E u \in DOMAIN sessions :
        /\ sessions[u].total_frames >= 2
        /\ sessions[u].is_finished
        /\ sessions[u].left_bound = sessions[u].total_frames
        /\ sessions[u].found_frame = Some(sessions[u].total_frames - 1)

\* ------------------------------------------------------------------ C13
\* C13: the registry holds each user's own session under that user's id, and
\* right after create_session(user, n) with n >= 1 get_session(user) is the
\* new session: bounds 0..n-1, first probe issued (steps_taken = 1), not
\* finished, no found_frame; nothing of an earlier session is left.
C13_CreateReplacesSession ==
    /\ \A u \in DOMAIN sessions : u \in Users /\ sessions[u].user_id = u
    /\ (ret.op = "create_session" /\ ret.total_frames >= 1) =>
            /\ ret.user \in DOMAIN sessions
            /\ LET s == get_session(ret.user)
               IN  /\ s.user_id = ret.user
                   /\ s.total_frames = ret.total_frames
                   /\ s.left_bound = 0
                   /\ s.right_bound = ret.total_frames - 1
                   /\ s.current_frame = (ret.total_frames - 1) \div 2
                   /\ s.steps_taken = 1
                   /\ ~s.is_finished
                   /\ s.found_frame = None

\* A session just created for one user while the other holds a finished one
C13_Witness ==
    /\ ret.op = "create_session"
    /\ ret.total_frames = MaxRegistryFrames
    /\ DOMAIN sessions = Users
    /\ get_session(ret.user).steps_taken = 1
    /\ \E v \in Users \ {ret.user} : sessions[v].is_finished

\* ------------------------------------------------------------------ C14
\* C14: for a user without a session, get_session returns None and
\* end_session does nothing; neither raises and the registry map is the same
\* afterwards.
C14_AbsenceIsNormal ==
    [][\A u \in Users :
        (/\ u \notin DOMAIN sessions
         /\ ret'.user = u
         /\ ret'.op \in {"get_session", "end_session"})
            => /\ sessions' = sessions
               /\ ret'.err = "none"
               /\ ret'.op = "get_session" => ret'.val = "None"]_vars

\* get_session answered None for one user while the other holds a session
C14_Witness ==
    /\ ret.op = "get_session"
    /\ ret.val = "None"
    /\ ret.user \notin DOMAIN sessions
    /\ \E v \in Users \ {ret.user} : v \in DOMAIN sessions /\ Len(asked[v]) >= 1

\* ------------------------------------------------------------------ C16
\* C16: an operation issued for one user (create, get, end or an answer)
\* leaves every other user's entry as it was: still present or still absent,
\* and with the same bounds, probe, steps_taken, is_finished and found_frame.
C16_UsersAreIndependent ==
    [][\A b \in Users :
        ret'.user # b =>
            /\ (b \in DOMAIN sessions') <=> (b \in DOMAIN sessions)
            /\ b \in DOMAIN sessions => sessions'[b] = sessions[b]]_vars

\* One user has just answered while the other holds a session it has answered
C16_Witness ==
    /\ ret.op = "submit_answer"
    /\ DOMAIN sessions = Users
    /\ \A u \in Users : Len(asked[u]) >= 1
    /\ \E v \in Users \ {ret.user} :
        /\ sessions[v].total_frames = MaxRegistryFrames
        /\ sessions[v] # sessions[ret.user]

\* ------------------------------------------------------------------ C15
\* C15: once handle_frame_response has processed the answer that finishes a
\* user's session, the registry holds no session for that user, whether or
\* not the result could be displayed; so no finished session (of a video
\* with at least one frame) is ever left in the registry between two updates
\* for a later answer to find.
C15_CompletionDiscardsSession ==
    \A u \in DOMAIN sessions :
        sessions[u].total_frames >= 1 => ~sessions[u].is_finished

\* ------------------------------------------------------------------ C17
\* C17 as stated: when a session (total_frames >= 1) finishes, every probe
\* answered "no" is below found_frame and every probe answered "yes" is at or
\* above it, for every sequence of answers.
C17_FoundFrameIsLeftmostConsistent ==
    \A u \in DOMAIN sessions :
        LET s == sessions[u]
        IN  (s.total_frames >= 1 /\ s.is_finished /\ late[u] = 0) =>
                \A i \in 1..Len(asked[u]) :
                    IF asked[u][i][2]
                    THEN asked[u][i][1] >= s.found_frame[1]
                    ELSE asked[u][i][1] < s.found_frame[1]

\* C17 amended: when a session (total_frames >= 1) finishes, every probe
\* answered "yes" is at or above found_frame and, if at least one answer was
\* "yes", every probe answered "no" is below it; if every answer was "no",
\* found_frame is the last frame, total_frames - 1, the fallback value,
\* although that frame was itself answered "no".
C17_FoundFrameConsistentUnlessAllNo ==
    \A u \in DOMAIN sessions :
        LET s == sessions[u]
            h == asked[u]
        IN  (s.total_frames >= 1 /\ s.is_finished /\ late[u] = 0) =>
                /\ \A i \in 1..Len(h) : h[i][2] => h[i][1] >= s.found_frame[1]
                /\ ~AllAnswers(h, FALSE) =>
                        \A i \in 1..Len(h) : ~h[i][2] => h[i][1] < s.found_frame[1]
                /\ AllAnswers(h, FALSE) =>
                        /\ s.found_frame = Some(s.total_frames - 1)
                        /\ h[Len(h)] = <<s.total_frames - 1, FALSE>>

\* A session finished by at least two "no" and two "yes" answers
C17_Witness ==
    \E u \in DOMAIN sessions :
        /\ sessions[u].is_finished
        /\ late[u] = 0
        /\ Len(asked[u]) >= 4
        /\ \E i, j \in 1..Len(asked[u]) :
                i # j /\ asked[u][i][2] /\ asked[u][j][2]
        /\ \E i, j \in 1..Len(asked[u]) :
                i # j /\ ~asked[u][i][2] /\ ~asked[u][j][2]

\* ------------------------------------------------------------------ C18
\* C18: left_bound <= right_bound + 1 in every state a session
\* (total_frames >= 1) reaches by update_bounds/next_step calls with any
\* answers.
C18_BoundsCrossByAtMostOne ==
    \A u \in DOMAIN sessions :
        sessions[u].total_frames >= 1 =>
            sessions[u].left_bound <= sessions[u].right_bound + 1

\* ------------------------------------------------------------------ C19
\* C19: while a session (total_frames >= 1) is not finished,
\* left_bound <= current_frame <= right_bound.
C19_ProbeWithinBounds ==
    \A u \in DOMAIN sessions :
        LET s == sessions[u]
        IN  (s.total_frames >= 1 /\ ~s.is_finished) =>
                /\ s.left_bound <= s.current_frame
                /\ s.current_frame <= s.right_bound

\* An active session whose probe lies strictly inside the bounds two "no"
\* answers have narrowed
C19_Witness ==
    \E u \in DOMAIN sessions :
        /\ ~sessions[u].is_finished
        /\ Len(asked[u]) = 2
        /\ AllAnswers(asked[u], FALSE)
        /\ 0 < sessions[u].left_bound
        /\ sessions[u].left_bound < sessions[u].current_frame
        /\ sessions[u].current_frame < sessions[u].right_bound

\* ------------------------------------------------------------------ C20
\* C20: while a session (total_frames >= 1) is not finished its probe is
\* floor((left_bound + right_bound) / 2); and with 8 frames and the event at
\* frame 5 the probes are 3, 5 and 4, the third answer finishing the session.
C20_ProbeIsFloorMidpoint ==
    \A u \in DOMAIN sessions :
        LET s == sessions[u]
            h == asked[u]
            expected == <<3, 5, 4>>
        IN  /\ (s.total_frames >= 1 /\ ~s.is_finished) =>
                    s.current_frame = (s.left_bound + s.right_bound) \div 2
            /\ (s.total_frames = 8 /\ late[u] = 0 /\ Consistent(h, 5)) =>
                    /\ Len(h) <= 3
                    /\ \A i \in 1..Len(h) : h[i][1] = expected[i]
                    /\ Len(h) < 3 =>
                            (~s.is_finished /\ s.current_frame = expected[Len(h) + 1])
                    /\ Len(h) = 3 => s.is_finished

\* The scenario before its third answer: probes 3 and 5 answered, 4 shown
C20_Witness ==
    \E u \in DOMAIN sessions :
        /\ sessions[u].total_frames = 8
        /\ asked[u] = << <<3, FALSE>>, <<5, TRUE>> >>
        /\ ~sessions[u].is_finished
        /\ sessions[u].left_bound = 4
        /\ sessions[u].right_bound = 4
        /\ sessions[u].current_frame = 4

\* ------------------------------------------------------------------ C21
\* C21: an answer to an active session narrows exactly one bound: "yes" sets
\* right_bound to the probe - 1 and leaves left_bound, "no" sets left_bound to
\* the probe + 1 and leaves right_bound; and no operation on a session (an
\* answer, a lookup) changes its user_id or its total_frames.
C21_AnswerNarrowsOneBound ==
    [][\A u \in Users :
        /\ (Answered(u) /\ ~sessions[u].is_finished) =>
                LET s == sessions[u]
                    t == sessions'[u]
                    probe == asked'[u][Len(asked'[u])]
                IN  /\ probe[1] = s.current_frame
                    /\ probe[2] =>
                            /\ t.right_bound = s.current_frame - 1
                            /\ t.left_bound = s.left_bound
                    /\ ~probe[2] =>
                            /\ t.left_bound = s.current_frame + 1
                            /\ t.right_bound = s.right_bound
        /\ (u \in DOMAIN sessions /\ ret'.op \in {"submit_answer", "get_session"}) =>
                /\ u \in DOMAIN sessions'
                /\ sessions'[u].user_id = sessions[u].user_id
                /\ sessions'[u].total_frames = sessions[u].total_frames]_vars

\* An active session that a "no" and then a "yes" have narrowed on both sides
C21_Witness ==
    \E u \in DOMAIN sessions :
        /\ ~sessions[u].is_finished
        /\ Len(asked[u]) = 2
        /\ ~asked[u][1][2]
        /\ asked[u][2][2]
        /\ sessions[u].left_bound = asked[u][1][1] + 1
        /\ sessions[u].right_bound = asked[u][2][1] - 1
        /\ sessions[u].right_bound < sessions[u].total_frames - 1

\* ------------------------------------------------------------------ C22
\* C22: steps_taken counts the probes issued (total_frames >= 1): it is 1
\* after construction, an answer that leaves the session active adds exactly
\* 1, the answer that finishes it adds nothing, and it never decreases; so an
\* active session has steps_taken = answers received + 1 and a session that
\* has finished has steps_taken = the answers it received up to finishing.
C22_StepsTakenCountsProbes ==
    [][\A u \in DOMAIN sessions' :
        sessions'[u].total_frames >= 1 =>
            /\ sessions'[u].steps_taken =
                    Len(asked'[u]) + (IF sessions'[u].is_finished THEN 0 ELSE 1)
            /\ (ret'.op = "create_session" /\ ret'.user = u) =>
                    sessions'[u].steps_taken = 1
            /\ Answered(u) =>
                    /\ sessions'[u].steps_taken >= sessions[u].steps_taken
                    /\ sessions'[u].steps_taken =
                            sessions[u].steps_taken
                                + (IF sessions'[u].is_finished THEN 0 ELSE 1)]_vars

\* A session of 8 frames finished by its third answer, three probes issued
C22_Witness ==
    \E u \in DOMAIN sessions :
        /\ sessions[u].total_frames = 8
        /\ sessions[u].is_finished
        /\ late[u] = 0
        /\ Len(asked[u]) = 3
        /\ sessions[u].steps_taken = 3

\* ------------------------------------------------------------------ C23
\* C23: a session (total_frames >= 1) is not finished after construction;
\* is_finished becomes true only in an answer whose narrowing leaves
\* left_bound > right_bound; once true no operation resets it; and the answer
\* returns True exactly when the session is finished afterwards.
C23_OnlyActiveToFinished ==
    [][\A u \in DOMAIN sessions' :
        sessions'[u].total_frames >= 1 =>
            /\ (ret'.op = "create_session" /\ ret'.user = u) =>
                    ~sessions'[u].is_finished
            /\ (u \in DOMAIN sessions /\ ret'.op \in {"submit_answer", "get_session"}) =>
                    /\ sessions[u].is_finished => sessions'[u].is_finished
                    /\ (~sessions[u].is_finished /\ sessions'[u].is_finished) =>
                            /\ Answered(u)
                            /\ sessions'[u].left_bound > sessions'[u].right_bound
                    /\ (~sessions[u].is_finished /\ ~sessions'[u].is_finished) =>
                            sessions'[u].left_bound <= sessions'[u].right_bound
            /\ Answered(u) =>
                    (ret'.val = "True" <=> sessions'[u].is_finished)]_vars

\* An answer that returned False and left the session active with a new probe
C23_Witness ==
    /\ ret.op = "submit_answer"
    /\ ret.val = "False"
    /\ ret.user \in DOMAIN sessions
    /\ ~sessions[ret.user].is_finished
    /\ Len(asked[ret.user]) = 3
    /\ sessions[ret.user].steps_taken = 4

\* ------------------------------------------------------------------ C24
\* C24 as stated: remaining_steps of get_progress_info is
\* ceil(log2(right_bound - left_bound + 1)) when right_bound > left_bound and
\* 0 otherwise, in every session state.
C24_RemainingStepsIsCeilLog2 ==
    \A u \in DOMAIN sessions :
        LET s == sessions[u]
        IN  get_progress_info(s).remaining_steps =
                IF s.right_bound > s.left_bound
                THEN CeilLog2(s.right_bound - s.left_bound + 1)
                ELSE 0

\* C24 amended: remaining_steps of get_progress_info is
\* floor(log2(right_bound - left_bound + 1)) when right_bound > left_bound and
\* 0 otherwise, in every session state; for 3 candidate frames it is 1.
C24_RemainingStepsIsFloorLog2 ==
    \A u \in DOMAIN sessions :
        LET s == sessions[u]
        IN  get_progress_info(s).remaining_steps =
                IF s.right_bound > s.left_bound
                THEN FloorLog2(s.right_bound - s.left_bound + 1)
                ELSE 0

\* An active session that an answer has narrowed to 3 candidate frames
C24_Witness ==
    \E u \in DOMAIN sessions :
        /\ ~sessions[u].is_finished
        /\ Len(asked[u]) >= 1
        /\ sessions[u].right_bound - sessions[u].left_bound + 1 = 3
        /\ get_progress_info(sessions[u]).remaining_steps = 1

\* ------------------------------------------------------------------ C25
\* C25: find_launch_frame returns the first launched frame: for total_frames
\* >= 1 and a monotonic tester with threshold k in 0..total_frames-1 it
\* returns k; for total_frames < 1 it raises ValueError and probes no frame.
C25_FindLaunchFrameReturnsThreshold ==
    ret.op = "find_launch_frame" =>
        IF ret.total_frames < 1
        THEN ret.err = "ValueError" /\ ret.probes = << >>
        ELSE \A k \in 0..(ret.total_frames - 1) :
                ret.frame_tester = MonotonicTester(ret.total_frames, k) =>
                    (ret.err = "none" /\ ret.frame = k)

\* ------------------------------------------------------------------ C26
\* C26: for total_frames >= 2 and a monotonic oracle with threshold k in
\* 1..total_frames-1, find_launch_frame returns the frame that a session of
\* the same video, answered by the same oracle until it finishes, has as
\* found_frame; the two can differ only for threshold 0.
C26_VariantsAgreeOffBoundary ==
    (ret.op = "find_launch_frame" /\ ret.total_frames >= 2) =>
        \A u \in DOMAIN sessions :
            LET s == sessions[u]
            IN  (/\ s.total_frames = ret.total_frames
                 /\ s.is_finished
                 /\ late[u] = 0) =>
                    \A k \in 1..(ret.total_frames - 1) :
                        (/\ ret.frame_tester = MonotonicTester(ret.total_frames, k)
                         /\ Consistent(asked[u], k))
                            => /\ ret.err = "none"
                               /\ s.found_frame = Some(ret.frame)

\* 8 frames, launch at frame 5: the session and find_launch_frame both say 5
C26_Witness ==
    /\ ret.op = "find_launch_frame"
    /\ ret.total_frames = 8
    /\ ret.frame_tester = MonotonicTester(8, 5)
    /\ ret.frame = 5
    /\ \E u \in DOMAIN sessions :
        /\ sessions[u].total_frames = 8
        /\ sessions[u].is_finished
        /\ late[u] = 0
        /\ Consistent(asked[u], 5)
        /\ sessions[u].found_frame = Some(5)

\* ------------------------------------------------------------------ C27
\* C27: for total_frames >= 1 and any answers, found_frame once set is a
\* frame index, 0 <= found_frame <= total_frames - 1, and so is every probe
\* issued: the current one and every one that was answered.
C27_FramesAreValidIndices ==
    \A u \in DOMAIN sessions :
        LET s == sessions[u]
            valid == 0..(s.total_frames - 1)
        IN  s.total_frames >= 1 =>
                /\ s.found_frame # None => s.found_frame[1] \in valid
                /\ s.current_frame \in valid
                /\ \A i \in 1..Len(asked[u]) : asked[u][i][1] \in valid

\* The largest video finished by "no" answers only: left_bound has left the
\* valid indices and found_frame is the last frame
C27_Witness ==
    \E u \in DOMAIN sessions :
        /\ sessions[u].total_frames = MaxFrames
        /\ sessions[u].is_finished
        /\ sessions[u].left_bound = MaxFrames
        /\ sessions[u].found_frame = Some(MaxFrames - 1)
        /\ sessions[u].current_frame = MaxFrames - 1

\* ------------------------------------------------------------------ C28
\* C28: for total_frames >= 1 and any answers, an answer that leaves the
\* session active shrinks the candidate range right_bound - left_bound + 1 to
\* at most half of what it was, and strictly; no frame is probed twice in a
\* session; and the session is finished after at most
\* floor(log2(total_frames)) + 1 answers.
C28_SearchTerminates ==
    [][\A u \in DOMAIN sessions' :
        LET t == sessions'[u]
            h == asked'[u]
        IN  t.total_frames >= 1 =>
                /\ (Answered(u) /\ ~sessions[u].is_finished /\ ~t.is_finished) =>
                        LET before == sessions[u].right_bound - sessions[u].left_bound + 1
                            after == t.right_bound - t.left_bound + 1
                        IN  after < before /\ 2 * after <= before
                /\ \A i, j \in 1..Len(h) : h[i][1] = h[j][1] => i = j
                /\ ~t.is_finished =>
                        /\ \A i \in 1..Len(h) : h[i][1] # t.current_frame
                        /\ Len(h) < FloorLog2(t.total_frames) + 1
                /\ t.is_finished => Len(h) <= FloorLog2(t.total_frames) + 1]_vars

\* The largest video, finished by the last answer the bound allows
C28_Witness ==
    \E u \in DOMAIN sessions :
        /\ sessions[u].total_frames = MaxFrames
        /\ sessions[u].is_finished
        /\ late[u] = 0
        /\ Len(asked[u]) = FloorLog2(MaxFrames) + 1

\* ------------------------------------------------------------------ C29
\* C29: when start_command or handle_restart has run for a user (for
\* handle_restart: past query.answer(), which raises before anything is
\* touched), the registry holds for that user either a session as the
\* constructor leaves it (for total_frames >= 1: bounds 0..total_frames-1,
\* steps_taken 1, not finished, no found_frame) or, if get_video_info raised,
\* no session; nothing of the previous session is left to get_session.
C29_RestartNeverKeepsOldSession ==
    [][(ret'.op \in {"start_command", "handle_restart"} /\ ret'.err # "answer") =>
        LET u == ret'.user
        IN  IF ret'.err = "video_info"
            THEN u \notin DOMAIN sessions'
            ELSE /\ u \in DOMAIN sessions'
                 /\ sessions'[u] = UserSession(u, ret'.total_frames)
                 /\ ret'.total_frames >= 1 =>
                        /\ sessions'[u].left_bound = 0
                        /\ sessions'[u].right_bound = ret'.total_frames - 1
                        /\ sessions'[u].steps_taken = 1
                        /\ ~sessions'[u].is_finished
                        /\ sessions'[u].found_frame = None]_vars

\* A restart that has just given a user a new session while the other user
\* is in the middle of a search
C29_Witness ==
    /\ ret.op = "handle_restart"
    /\ ret.err = "none"
    /\ ret.total_frames = MaxRegistryFrames
    /\ ret.user \in DOMAIN sessions
    /\ sessions[ret.user].steps_taken = 1
    /\ asked[ret.user] = << >>
    /\ \E v \in Users \ {ret.user} :
        v \in DOMAIN sessions /\ Len(asked[v]) >= 1 /\ ~sessions[v].is_finished

====
